---- MODULE Spec2Model ----
(***************************************************************************)
(* Model of espaloma/data/alkethoh/independent_baseline.py: the symmetry   *)
(* based class assignment for bonds, angles and proper torsions, the       *)
(* parameter lookup of the three potential evaluators, and the parameter   *)
(* slicing of the fitting driver's loss.                                   *)
(*                                                                         *)
(* Python indices are 0-based; a Python array a is modelled as a TLA+      *)
(* sequence s with a[i] = s[i + 1].  A parameter vector of length L is     *)
(* modelled by the sequence of its positions <<0, ..., L-1>>, so that the  *)
(* value an evaluator reads tells which position of the vector it read.    *)
(***************************************************************************)
EXTENDS Integers, Sequences, FiniteSets, TLC

VARIABLES offmol, sym, calls, cur, params, ev, counts, slices

vars == <<offmol, sym, calls, cur, params, ev, counts, slices>>

\* ---------------------------------------------------------------- bounds
MaxInter == 2
MaxClass == 2
MaxCalls == 2
MaxRows == 3
MaxUnique == 3

\* ------------------------------------------------------ program constants
n_periodicities == 6

\* ---------------------------------------------------------------- helpers
Range(s) == {s[i] : i \in 1..Len(s)}

Positions(L) == [i \in 1..L |-> i - 1]

None == [status |-> "none"]

Error == [status |-> "error"]

\* tup[::-1]
Reverse(tup) == [i \in 1..Len(tup) |-> tup[Len(tup) + 1 - i]]

\* Python's tuple comparison a < b
LexLess(a, b) ==
    \/ \E i \in 1..Len(a) :
          /\ i <= Len(b)
          /\ a[i] < b[i]
          /\ \A j \in 1..(i - 1) : a[j] = b[j]
    \/ /\ Len(a) < Len(b)
       /\ \A j \in 1..Len(a) : a[j] = b[j]

\* min(tup, tup[::-1]) with the larger of the two returned instead
canonicalize_order_max(tup) ==
    IF LexLess(tup, Reverse(tup)) THEN Reverse(tup) ELSE tup

\* min(tup, tup[::-1]): Python's min keeps its first argument unless the
\* second one is strictly smaller
canonicalize_order(tup) ==
    IF LexLess(Reverse(tup), tup) THEN Reverse(tup) ELSE tup

\* a[start:stop] for 0 <= start, 0 <= stop
Slice(a, start, stop) ==
    LET lo == IF start > Len(a) THEN Len(a) ELSE start
        hi == IF stop > Len(a) THEN Len(a) ELSE stop
    IN  IF hi <= lo THEN << >> ELSE SubSeq(a, lo + 1, hi)

\* a[-n:] : for n > 0 the start is len(a) - n clipped at 0; -0 is 0, so for
\* n = 0 the slice is a[0:], the whole array
LastSlice(a, n) ==
    IF n = 0 THEN Slice(a, 0, Len(a))
    ELSE Slice(a, IF Len(a) - n < 0 THEN 0 ELSE Len(a) - n, Len(a))

\* ------------------------------------------------- external collaborators
\* Arity of the interaction type a call enumerates
Arity(kind) ==
    CASE kind = "bond" -> 2
      [] kind = "angle" -> 3
      [] kind = "torsion" -> 4

\* The atoms i, i+1, ..., i+arity-1 of a chain
Window(i, arity) == [j \in 1..arity |-> i + j - 1]

\* offmol.bonds / offmol.angles / offmol.propers of a linear chain of
\* n atoms: one tuple per window of consecutive atoms, in chain order, each
\* enumerated in either atom order
Enumerations(n, arity) ==
    LET cnt == IF n - arity + 1 > 0 THEN n - arity + 1 ELSE 0
    IN  {e \in [1..cnt -> UNION {{Window(i, arity), Reverse(Window(i, arity))} : i \in 0..(cnt - 1)}] :
            \A i \in 1..cnt : e[i] \in {Window(i - 1, arity), Reverse(Window(i - 1, arity))}}

\* atom_symmetry_classes(offmol): one class per atom the toolkit reports;
\* the length is the toolkit's, not necessarily offmol.n_atoms: one class
\* short, exact, or one class too many (the surplus entry, which no atom
\* index of the molecule reaches, is class 1)
SymmetryVectors(n) ==
    UNION {[1..len -> 1..MaxClass] : len \in {l \in {n - 1, n} : l >= 0}}
        \cup {Append(v, 1) : v \in [1..n -> 1..MaxClass]}

\* ------------------------------------------------------- class assignment
\* tuple(sym[i] for i in inds)
SymTup(s, inds) == [j \in 1..Len(inds) |-> s[inds[j] + 1]]

\* sym[i] raises IndexError when i is past the end of the array
InBounds(s, inds) == \A j \in 1..Len(inds) : inds[j] < Len(s)

\* ids that may collide: any function from the keys to range(len(set))
IndMaps_collide(keys) == [keys -> 0..(Cardinality(keys) - 1)]

\* ids counted from 1: zip(bond_set, range(1, len(bond_set) + 1))
IndMaps_from1(keys) ==
    {m \in [keys -> 1..Cardinality(keys)] :
        \A a, b \in keys : a # b => m[a] # m[b]}

\* dict(zip(bond_set, range(len(bond_set)))): the set is iterated in an
\* arbitrary order, each key gets the position at which it is iterated
IndMaps(keys) ==
    {m \in [keys -> 0..(Cardinality(keys) - 1)] :
        \A a, b \in keys : a # b => m[a] # m[b]}

\* get_unique_bonds with the tuple of symmetry classes used as it is
\* enumerated, not canonicalized
get_unique_bonds_raw(s, bonds) ==
    IF \E i \in 1..Len(bonds) : ~InBounds(s, bonds[i])
    THEN {Error}
    ELSE LET bond_tups == [i \in 1..Len(bonds) |-> SymTup(s, bonds[i])]
         IN  {[status |-> "ok",
               index_tuples |-> bonds,
               tups |-> bond_tups,
               class_ids |-> [i \in 1..Len(bonds) |-> bond_ind_map[bond_tups[i]]],
               dtype |-> IF Len(bonds) = 0 THEN "float" ELSE "int"] :
                  bond_ind_map \in IndMaps(Range(bond_tups))}

\* get_unique_bonds(offmol): the results a call can return for the bonds
\* the molecule enumerates and the symmetry vector s
get_unique_bonds(s, bonds) ==
    IF \E i \in 1..Len(bonds) : ~InBounds(s, bonds[i])
    THEN {Error}
    ELSE LET bond_tups == [i \in 1..Len(bonds) |-> canonicalize_order(SymTup(s, bonds[i]))]
         IN  {[status |-> "ok",
               index_tuples |-> bonds,
               tups |-> bond_tups,
               class_ids |-> [i \in 1..Len(bonds) |-> bond_ind_map[bond_tups[i]]],
               dtype |-> IF Len(bonds) = 0 THEN "float" ELSE "int"] :
                  bond_ind_map \in IndMaps(Range(bond_tups))}

\* get_unique_angles(offmol)
get_unique_angles(s, angles) ==
    IF \E i \in 1..Len(angles) : ~InBounds(s, angles[i])
    THEN {Error}
    ELSE LET angle_tups == [i \in 1..Len(angles) |-> canonicalize_order(SymTup(s, angles[i]))]
         IN  {[status |-> "ok",
               index_tuples |-> angles,
               tups |-> angle_tups,
               class_ids |-> [i \in 1..Len(angles) |-> angle_ind_map[angle_tups[i]]],
               dtype |-> IF Len(angles) = 0 THEN "float" ELSE "int"] :
                  angle_ind_map \in IndMaps(Range(angle_tups))}

\* get_unique_torsions(offmol)
get_unique_torsions(s, propers) ==
    IF \E i \in 1..Len(propers) : ~InBounds(s, propers[i])
    THEN {Error}
    ELSE LET torsion_tups == [i \in 1..Len(propers) |-> canonicalize_order(SymTup(s, propers[i]))]
         IN  {[status |-> "ok",
               index_tuples |-> propers,
               tups |-> torsion_tups,
               class_ids |-> [i \in 1..Len(propers) |-> torsion_ind_map[torsion_tups[i]]],
               dtype |-> IF Len(propers) = 0 THEN "float" ELSE "int"] :
                  torsion_ind_map \in IndMaps(Range(torsion_tups))}

\* ------------------------------------------------------------- evaluators
\* a[inds] for an index array: IndexError when the index array is not of
\* integer type (np.array([]) of an empty list is float64) or an index is
\* past the end of a
CanIndex(a, res) ==
    /\ res.dtype = "int"
    /\ \A i \in 1..Len(res.class_ids) : res.class_ids[i] < Len(a)

Take(a, inds) == [i \in 1..Len(inds) |-> a[inds[i] + 1]]

\* ks, r0s = params[n_unique:], params[:n_unique]
compute_harmonic_bond_potential_swapped(p, res) ==
    LET n_unique == Len(p) \div 2
        ks == Slice(p, n_unique, Len(p))
        r0s == Slice(p, 0, n_unique)
    IN  IF ~CanIndex(ks, res) \/ ~CanIndex(r0s, res)
        THEN Error
        ELSE [status |-> "ok",
              k |-> Take(ks, res.class_ids),
              x0 |-> Take(r0s, res.class_ids),
              n_terms |-> Len(res.class_ids)]

\* compute_harmonic_bond_potential: the (k, r0) each bond instance uses
compute_harmonic_bond_potential(p, res) ==
    LET n_unique == Len(p) \div 2
        ks == Slice(p, 0, n_unique)
        r0s == Slice(p, n_unique, Len(p))
    IN  IF ~CanIndex(ks, res) \/ ~CanIndex(r0s, res)
        THEN Error
        ELSE [status |-> "ok",
              k |-> Take(ks, res.class_ids),
              x0 |-> Take(r0s, res.class_ids),
              n_terms |-> Len(res.class_ids)]

\* compute_harmonic_angle_potential: the (k, theta0) each angle instance uses
compute_harmonic_angle_potential(p, res) ==
    LET n_unique == Len(p) \div 2
        ks == Slice(p, 0, n_unique)
        theta0s == Slice(p, n_unique, Len(p))
    IN  IF ~CanIndex(ks, res) \/ ~CanIndex(theta0s, res)
        THEN Error
        ELSE [status |-> "ok",
              k |-> Take(ks, res.class_ids),
              x0 |-> Take(theta0s, res.class_ids),
              n_terms |-> Len(res.class_ids)]

\* np.reshape(params, (n_unique, 2 * n_periodicities)): row c is
\* params[c * 2P : (c + 1) * 2P]
Reshape(p, rows, cols) ==
    [c \in 1..rows |-> SubSeq(p, (c - 1) * cols + 1, c * cols)]

\* the layout [all ks of all classes, all phases of all classes]
compute_periodic_torsion_potential_halves(p, res) ==
    LET n_unique == Len(p) \div (2 * n_periodicities)
        kpart == Reshape(Slice(p, 0, n_unique * n_periodicities), n_unique, n_periodicities)
        ppart == Reshape(Slice(p, n_unique * n_periodicities, Len(p)), n_unique, n_periodicities)
    IN  IF n_unique * (2 * n_periodicities) # Len(p)
        THEN Error
        ELSE IF ~CanIndex(kpart, res)
        THEN Error
        ELSE [status |-> "ok",
              k |-> Take(kpart, res.class_ids),
              x0 |-> Take(ppart, res.class_ids),
              n_terms |-> Len(res.class_ids) * n_periodicities]

\* compute_periodic_torsion_potential: the (ks, phases) each torsion
\* instance uses; np.reshape raises when the size does not fit
compute_periodic_torsion_potential(p, res) ==
    LET n_unique == Len(p) \div (2 * n_periodicities)
        rows == Reshape(p, n_unique, 2 * n_periodicities)
    IN  IF n_unique * (2 * n_periodicities) # Len(p)
        THEN Error
        ELSE IF ~CanIndex(rows, res)
        THEN Error
        ELSE [status |-> "ok",
              k |-> [i \in 1..Len(res.class_ids) |->
                        Slice(rows[res.class_ids[i] + 1], 0, n_periodicities)],
              x0 |-> [i \in 1..Len(res.class_ids) |->
                        Slice(rows[res.class_ids[i] + 1], n_periodicities, 2 * n_periodicities)],
              n_terms |-> Len(res.class_ids) * n_periodicities]

\* ---------------------------------------------------------- fitting driver
\* loss(all_params): the three slices handed to the evaluators
loss(all_params, n_bond_params, n_angle_params, n_torsion_params) ==
    [status |-> "ok",
     bond_params |-> Slice(all_params, 0, n_bond_params),
     angle_params |-> Slice(all_params, n_bond_params, n_bond_params + n_angle_params),
     torsion_params |-> LastSlice(all_params, n_torsion_params)]

\* ------------------------------------------------------------------ state
\* The molecules of the model: chains with 0..MaxInter interactions of the
\* type the calls are about, that is of arity - 1 + that many atoms
Molecules ==
    UNION {{[n_atoms |-> Arity(kd) - 1 + cnt, kind |-> kd, inter |-> e] :
                e \in Enumerations(Arity(kd) - 1 + cnt, Arity(kd))} :
              cnt \in 0..MaxInter, kd \in {"bond", "angle", "torsion"}}

\* The lengths of the parameter vectors handed to an evaluator: whole
\* blocks of one value (harmonic) or n_periodicities values (torsion) per
\* class, up to 2 * MaxRows + 1 blocks
ParamLengths(block) == {block * u : u \in 0..(2 * MaxRows + 1)}

Init ==
    /\ offmol \in Molecules
    /\ sym \in SymmetryVectors(offmol.n_atoms)
    /\ calls = 0
    /\ cur = None
    /\ params = << >>
    /\ ev = None
    /\ counts = None
    /\ slices = None

GetUniqueBonds ==
    /\ offmol.kind = "bond"
    /\ calls < MaxCalls
    /\ ev.status = "none"
    /\ cur' \in get_unique_bonds(sym, offmol.inter)
    /\ calls' = calls + 1
    /\ UNCHANGED <<offmol, sym, params, ev, counts, slices>>

GetUniqueAngles ==
    /\ offmol.kind = "angle"
    /\ calls < MaxCalls
    /\ ev.status = "none"
    /\ cur' \in get_unique_angles(sym, offmol.inter)
    /\ calls' = calls + 1
    /\ UNCHANGED <<offmol, sym, params, ev, counts, slices>>

GetUniqueTorsions ==
    /\ offmol.kind = "torsion"
    /\ calls < MaxCalls
    /\ ev.status = "none"
    /\ cur' \in get_unique_torsions(sym, offmol.inter)
    /\ calls' = calls + 1
    /\ UNCHANGED <<offmol, sym, params, ev, counts, slices>>

ComputeHarmonicBond ==
    /\ offmol.kind = "bond"
    /\ cur.status = "ok"
    /\ ev.status = "none"
    /\ \E L \in ParamLengths(1) :
          /\ params' = Positions(L)
          /\ ev' = compute_harmonic_bond_potential(Positions(L), cur)
    /\ UNCHANGED <<offmol, sym, calls, cur, counts, slices>>

ComputeHarmonicAngle ==
    /\ offmol.kind = "angle"
    /\ cur.status = "ok"
    /\ ev.status = "none"
    /\ \E L \in ParamLengths(1) :
          /\ params' = Positions(L)
          /\ ev' = compute_harmonic_angle_potential(Positions(L), cur)
    /\ UNCHANGED <<offmol, sym, calls, cur, counts, slices>>

ComputePeriodicTorsion ==
    /\ offmol.kind = "torsion"
    /\ cur.status = "ok"
    /\ ev.status = "none"
    /\ \E L \in ParamLengths(n_periodicities) :
          /\ params' = Positions(L)
          /\ ev' = compute_periodic_torsion_potential(Positions(L), cur)
    /\ UNCHANGED <<offmol, sym, calls, cur, counts, slices>>

\* Class assignment: any molecule of the model, any symmetry vector the
\* toolkit may return, each assigner called up to MaxCalls times
Next ==
    \/ GetUniqueBonds
    \/ GetUniqueAngles
    \/ GetUniqueTorsions

Spec == Init /\ [][Next]_vars

\* Evaluation: the driver's pipeline, class assignment followed by the
\* evaluator of the same interaction type on a parameter vector of any
\* length, for symmetry vectors with one class per atom
InitEval ==
    /\ Init
    /\ Len(sym) = offmol.n_atoms

NextEval ==
    \/ GetUniqueBonds
    \/ GetUniqueAngles
    \/ GetUniqueTorsions
    \/ ComputeHarmonicBond
    \/ ComputeHarmonicAngle
    \/ ComputePeriodicTorsion

SpecEval == InitEval /\ [][NextEval]_vars

\* The fitting driver alone: the unique-class counts are the inputs
InitLoss ==
    /\ offmol = None
    /\ sym = << >>
    /\ calls = 0
    /\ cur = None
    /\ params = << >>
    /\ ev = None
    /\ counts \in [bonds : 0..MaxUnique, angles : 0..MaxUnique, torsions : 0..MaxUnique]
    /\ slices = None

Loss ==
    /\ slices.status = "none"
    /\ LET n_bond_params == 2 * counts.bonds
           n_angle_params == 2 * counts.angles
           n_torsion_params == 2 * counts.torsions * n_periodicities
       IN  /\ params' = Positions(n_bond_params + n_angle_params + n_torsion_params)
           /\ slices' = loss(params', n_bond_params, n_angle_params, n_torsion_params)
    /\ UNCHANGED <<offmol, sym, calls, cur, ev, counts>>

NextLoss == Loss

SpecLoss == InitLoss /\ [][NextLoss]_vars

\* ------------------------------------------------------------ properties
\* len(set(bond_inds)): the number of distinct class ids of a result
NUnique(res) == Cardinality(Range(res.class_ids))

Evaluated == ev.status # "none"

Harmonic == offmol.kind \in {"bond", "angle"}

\* L is not an exact multiple of d (the only multiple of 0 is 0)
NotMultiple(L, d) == IF d = 0 THEN L # 0 ELSE L % d # 0

\* C1: every canonical key a class assigner builds is the tuple of its
\* atoms' symmetry classes or the reversal of that tuple, whichever is
\* lexicographically smaller; it has the tuple's length, it is also the
\* key of the reversed tuple, and a palindromic tuple is returned unchanged.
Thm_C1_CanonicalKey ==
    cur.status = "ok" =>
        \A i \in 1..Len(cur.tups) :
            LET t == SymTup(sym, cur.index_tuples[i])
                c == cur.tups[i]
            IN  /\ c \in {t, Reverse(t)}
                /\ ~LexLess(t, c)
                /\ ~LexLess(Reverse(t), c)
                /\ Len(c) = Len(t)
                /\ canonicalize_order(Reverse(t)) = c
                /\ (t = Reverse(t) => c = t)

\* C1 witness: a call built a key by reversing a tuple and another key from
\* a palindromic tuple of arity 4
Wit_C1_Reversed ==
    /\ cur.status = "ok"
    /\ offmol.kind = "torsion"
    /\ \E i \in 1..Len(cur.tups) : cur.tups[i] # SymTup(sym, cur.index_tuples[i])
    /\ \E i \in 1..Len(cur.tups) :
          SymTup(sym, cur.index_tuples[i]) = Reverse(SymTup(sym, cur.index_tuples[i]))

\* C2: a returned class-id array is as long as the returned index-tuple
\* array and as the list of enumerated interactions, the ids that occur are
\* exactly 0..n_unique-1, and n_unique is at most the number of interactions.
Thm_C2_DenseIds ==
    cur.status = "ok" =>
        /\ Len(cur.class_ids) = Len(cur.index_tuples)
        /\ Len(cur.class_ids) = Len(offmol.inter)
        /\ Range(cur.class_ids) = 0..(NUnique(cur) - 1)
        /\ Range(cur.class_ids) = 0..(Cardinality(Range(cur.tups)) - 1)
        /\ NUnique(cur) <= Len(offmol.inter)

\* C2 witness: two angles of different classes were assigned, the second
\* enumerated one getting id 0
Wit_C2_TwoAngleClasses ==
    /\ cur.status = "ok"
    /\ offmol.kind = "angle"
    /\ NUnique(cur) = 2
    /\ cur.class_ids = <<1, 0>>

\* C3: two interactions of one call get the same class id exactly when the
\* canonicalized tuples of their atoms' symmetry classes are equal; the
\* chain A-B-A with A # B has one bond class, shared by both bonds, in
\* whichever atom order the bonds are enumerated.
Thm_C3_SameIdIffSameKey ==
    cur.status = "ok" =>
        /\ \A i, j \in 1..Len(cur.class_ids) :
              (cur.class_ids[i] = cur.class_ids[j]) <=>
                  (canonicalize_order(SymTup(sym, offmol.inter[i])) =
                   canonicalize_order(SymTup(sym, offmol.inter[j])))
        /\ (/\ offmol.kind = "bond"
            /\ offmol.n_atoms = 3
            /\ Len(sym) = 3
            /\ sym[1] = sym[3]
            /\ sym[1] # sym[2]) =>
               /\ NUnique(cur) = 1
               /\ cur.class_ids[1] = cur.class_ids[2]

\* C3 witness: the bonds of A-B-A, enumerated as (0, 1) and (1, 2), were
\* assigned
Wit_C3_ABA ==
    /\ cur.status = "ok"
    /\ offmol.kind = "bond"
    /\ offmol.n_atoms = 3
    /\ sym = <<1, 2, 1>>
    /\ offmol.inter = << <<0, 1>>, <<1, 2>> >>

\* C4 as claimed: an evaluator called with a parameter vector whose length
\* is not a multiple of 2*n_unique (harmonic) or 2*6*n_unique (torsion)
\* ends in an error.
Orig_C4_RejectsBadLength ==
    Evaluated =>
        /\ (Harmonic /\ NotMultiple(Len(params), 2 * NUnique(cur)))
              => ev.status = "error"
        /\ (~Harmonic /\ NotMultiple(Len(params), 2 * n_periodicities * NUnique(cur)))
              => ev.status = "error"

\* C5 as claimed: with n classes the torsion evaluator reads the force
\* constant of class c and periodicity j at c*P + (j-1) and the phase at
\* n*P + c*P + (j-1).
Orig_C5_HalvesLayout ==
    (offmol.kind = "torsion" /\ ev.status = "ok"
        /\ Len(params) = 2 * n_periodicities * NUnique(cur)) =>
        \A i \in 1..Len(cur.class_ids) : \A j \in 1..n_periodicities :
            LET c == cur.class_ids[i]
                n == NUnique(cur)
            IN  /\ ev.k[i][j] = c * n_periodicities + (j - 1)
                /\ ev.x0[i][j] = n * n_periodicities + c * n_periodicities + (j - 1)

\* C5 amended: the torsion evaluator reads one row of 2*P values per class:
\* the force constant of class c and periodicity j is at c*2*P + (j-1) and
\* the phase at c*2*P + P + (j-1).
Thm_C5_RowLayout ==
    (offmol.kind = "torsion" /\ ev.status = "ok") =>
        \A i \in 1..Len(cur.class_ids) : \A j \in 1..n_periodicities :
            LET c == cur.class_ids[i]
            IN  /\ Len(ev.k[i]) = n_periodicities
                /\ Len(ev.x0[i]) = n_periodicities
                /\ ev.k[i][j] = c * 2 * n_periodicities + (j - 1)
                /\ ev.x0[i][j] = c * 2 * n_periodicities + n_periodicities + (j - 1)

\* C5 witness: torsions of two classes were evaluated with 2*P*n parameters
Wit_C5_TwoTorsionClasses ==
    /\ offmol.kind = "torsion"
    /\ ev.status = "ok"
    /\ NUnique(cur) = 2
    /\ Len(params) = 2 * n_periodicities * 2

\* C6 as claimed: with no interaction of the arity the assigner returns
\* empty arrays and n_unique = 0, and the evaluator called with them and a
\* zero-length parameter vector completes with an empty (zero) sum.
Orig_C6_EmptyCase ==
    /\ (cur.status # "none" /\ Len(offmol.inter) = 0) =>
          /\ cur.status = "ok"
          /\ cur.index_tuples = << >>
          /\ cur.class_ids = << >>
          /\ NUnique(cur) = 0
    /\ (Evaluated /\ Len(offmol.inter) = 0 /\ Len(params) = 0) =>
          /\ ev.status = "ok"
          /\ ev.n_terms = 0

\* C7: a further call of the same assigner on the same molecule and
\* symmetry vector returns the same index tuples in the same order and class
\* ids that induce the same partition of the interactions as the call before.
Thm_C7_SamePartition ==
    [][(calls >= 1 /\ calls' = calls + 1 /\ cur.status = "ok") =>
          /\ cur'.status = "ok"
          /\ cur'.index_tuples = cur.index_tuples
          /\ Len(cur'.class_ids) = Len(cur.class_ids)
          /\ \A i, j \in 1..Len(cur.class_ids) :
                (cur'.class_ids[i] = cur'.class_ids[j]) <=>
                    (cur.class_ids[i] = cur.class_ids[j])]_vars

\* C7 witness: an assigner was called again on a molecule whose interactions
\* fall in several classes, which the set of keys can enumerate in any order
Wit_C7_CalledTwice ==
    /\ calls >= 2
    /\ cur.status = "ok"
    /\ NUnique(cur) >= 2

\* C8: a harmonic evaluator called with 2*n_unique parameters completes and
\* uses, for an instance of class c, position c as force constant and
\* position n_unique + c as equilibrium value.
Thm_C8_HarmonicLayout ==
    (Evaluated /\ Harmonic /\ NUnique(cur) > 0 /\ Len(params) = 2 * NUnique(cur)) =>
        /\ ev.status = "ok"
        /\ \A i \in 1..Len(cur.class_ids) :
              /\ ev.k[i] = cur.class_ids[i]
              /\ ev.x0[i] = NUnique(cur) + cur.class_ids[i]
              /\ ev.k[i] < NUnique(cur)
              /\ ev.x0[i] >= NUnique(cur)
        /\ \A i, j \in 1..Len(cur.class_ids) :
              cur.class_ids[i] = cur.class_ids[j] =>
                  (ev.k[i] = ev.k[j] /\ ev.x0[i] = ev.x0[j])

\* C8 witness: bonds of two classes were evaluated with 4 parameters
Wit_C8_TwoBondClasses ==
    /\ offmol.kind = "bond"
    /\ ev.status = "ok"
    /\ NUnique(cur) = 2
    /\ Len(params) = 4

\* C9 as claimed: the three slices loss hands to the evaluators have the
\* lengths n_bond_params, n_angle_params, n_torsion_params, are pairwise
\* disjoint and together cover every position once, also for
\* n_torsion_params = 0.
Orig_C9_SlicesPartition ==
    slices.status = "ok" =>
        /\ Len(slices.bond_params) = 2 * counts.bonds
        /\ Len(slices.angle_params) = 2 * counts.angles
        /\ Len(slices.torsion_params) = 2 * counts.torsions * n_periodicities
        /\ Range(slices.bond_params) \cap Range(slices.angle_params) = {}
        /\ Range(slices.bond_params) \cap Range(slices.torsion_params) = {}
        /\ Range(slices.angle_params) \cap Range(slices.torsion_params) = {}
        /\ Range(slices.bond_params) \cup Range(slices.angle_params)
              \cup Range(slices.torsion_params) = Range(params)

\* C10 as claimed: a call of a class assigner whose symmetry vector is not
\* as long as the molecule's atom count ends in an error.
Orig_C10_LengthMismatchSurfaced ==
    (cur.status # "none" /\ Len(sym) # offmol.n_atoms) => cur.status = "error"

====
